---------------------------- MODULE Spec2Model ----------------------------
(***************************************************************************)
(* A model of the AI test runner: change detection, test discovery,        *)
(* coverage-gap analysis, test stub generation and validation with one     *)
(* corrective retry (ai_test_runner.py and agents/*.py).                   *)
(*                                                                         *)
(* Representation.                                                         *)
(*  - A path is the sequence of its parts without the ".py" suffix:        *)
(*    <<"src", "a", "util">> is src/a/util.py.                             *)
(*  - A Python source file is the sequence of its def/class nodes in the   *)
(*    order ast.walk yields them (breadth first), each with its line range *)
(*    and its depth (0 = statement of the module body).                    *)
(*  - A test file is the sequence of its text lines.  A line is a record   *)
(*    [k, name, txt]: k is what the line starts with at column 0 (or that  *)
(*    it is indented), name is the declared function name, txt the rest.   *)
(*  - A function name is [grp, pre, base]: "test_foo" is                   *)
(*    [grp |-> "", pre |-> "test_", base |-> "foo"], and the discovered    *)
(*    name "TestUtil.test_foo" has grp = "TestUtil".                       *)
(***************************************************************************)
EXTENDS Integers, Sequences, FiniteSets, TLC

\* ------------------------------------------------------------------ bounds
MaxLine == 3        \* source files have lines 1..MaxLine
MaxSyms == 2        \* def/class nodes per enumerated source file
MaxLen == 3         \* lines of an enumerated test file (import insertion)
MaxChanged == 2     \* files named by one git diff
MaxGaps == 2        \* coverage gaps handed to one generate_tests call
MaxDiff == 2        \* lines printed by one "git diff -U0" (symbol harness)

\* ------------------------------------------------------------ small helpers
Range(s) == {s[i] : i \in 1..Len(s)}

RECURSIVE Join(_, _)
\* sep.join(parts)
Join(parts, sep) ==
    IF Len(parts) = 0 THEN ""
    ELSE IF Len(parts) = 1 THEN parts[1]
    ELSE parts[1] \o sep \o Join(Tail(parts), sep)

RECURSIVE Flatten(_)
\* the lines of "\n".join(blocks) for blocks that are themselves line lists
Flatten(blocks) ==
    IF Len(blocks) = 0 THEN <<>> ELSE Head(blocks) \o Flatten(Tail(blocks))

\* Sequences without repetition over S, of length at most n.
RECURSIVE DistinctSeqs(_, _)
DistinctSeqs(S, n) ==
    IF n = 0 THEN {<<>>}
    ELSE LET shorter == DistinctSeqs(S, n - 1)
         IN  shorter \cup UNION {{Append(s, x) : x \in S \ Range(s)} :
                                    s \in {t \in shorter : Len(t) = n - 1}}

\* All sequences over S of length at most n.
RECURSIVE SeqsUpTo(_, _)
SeqsUpTo(S, n) ==
    IF n = 0 THEN {<<>>}
    ELSE LET shorter == SeqsUpTo(S, n - 1)
         IN  shorter \cup {Append(s, x) : s \in {t \in shorter : Len(t) = n - 1}, x \in S}

\* ------------------------------------------------------------------- names
NoName == [grp |-> "", pre |-> "", base |-> ""]
\* f"test_{symbol.name}"
TestName(symbol_name) == [grp |-> "", pre |-> "test_", base |-> symbol_name]
\* f"{node.name}.{class_node.name}"
Qualified(class_name, fn) == [grp |-> class_name, pre |-> fn.pre, base |-> fn.base]
\* name.startswith("test_")
StartsWithTest(fn) == fn.pre = "test_"

\* ------------------------------------------------------------------- lines
Line(k, name, txt) == [k |-> k, name |-> name, txt |-> txt]
Blank == Line("blank", NoName, "")
Text(txt) == Line("text", NoName, txt)                 \* other column-0 text
Import(txt) == Line("import", NoName, txt)             \* import <txt>
FromImport(txt) == Line("from", NoName, txt)           \* from <txt>
Def(name) == Line("def", name, "")                     \* def <name>(...):
AsyncDef(name) == Line("asyncdef", name, "")           \* async def <name>(...):
ClassLine(cls) == Line("class", NoName, cls)           \* class <cls>(...):
Method(cls, name) == Line("method", name, cls)         \*     def <name>(self...):
Body(txt) == Line("body", NoName, txt)                 \* any other indented line
\* @pytest.mark.xfail(reason="Auto-corrected generated test")
XfailLine == Line("xfail", NoName, "Auto-corrected generated test")

\* Texts of the model's lines that contain the substring "pytest".
PytestTexts == {"pytest", "pytest.raises(ValueError)"}
\* "pytest" in line
MentionsPytest(line) == line.k = "xfail" \/ line.txt \in PytestTexts

\* text.rstrip() seen on lines: trailing blank lines go.
RECURSIVE RStrip(_)
RStrip(lines) ==
    IF Len(lines) > 0 /\ lines[Len(lines)] = Blank
    THEN RStrip(SubSeq(lines, 1, Len(lines) - 1))
    ELSE lines

\* ------------------------------------------------------------------- paths
SourceFiles == {<<"src", "a", "util">>, <<"src", "b", "util">>, <<"src", "m">>}
\* What a git diff may also name: not under src/, or not a .py file.
OtherPaths == {<<"tests", "test_util">>}
\* source_file.stem
Stem(path) == path[Len(path)]

\* TestGenerationAgent._test_file_for_source
test_file_for_source(source_file) == <<"tests", "test_" \o Stem(source_file)>>
\* TestDiscoveryAgent.map_source_to_test
map_source_to_test(source_file) == <<"tests", "test_" \o Stem(source_file)>>
\* The module path is kept as its parts; its text is Join(parts, ".").
module_path_for_file(source_file) == source_file
\* module_path.replace('.', '_') + "_module"
module_alias(module_parts) == Join(module_parts, "_") \o "_module"

\* tests/**/test_*.py of the model: the canonical test files and one more.
TestFiles == {test_file_for_source(f) : f \in SourceFiles} \cup {<<"tests", "test_misc">>}

\* A file on disk: absent, or its lines.
Absent == [exists |-> FALSE, lines |-> <<>>]
OnDisk(lines) == [exists |-> TRUE, lines |-> lines]
\* path.write_text("\n".join(lines) + "\n") followed by read_text().splitlines()
write_text(lines) == OnDisk(lines)

\* ------------------------------------------------------------ source files
\* A def/class node of the syntax tree.
Node(name, node, args, lineno, end_lineno, depth) ==
    [name |-> name, node |-> node, args |-> args,
     lineno |-> lineno, end_lineno |-> end_lineno, depth |-> depth]

ChangedSymbol(name, symbol_type, file_path, lineno, end_lineno) ==
    [name |-> name, symbol_type |-> symbol_type, file_path |-> file_path,
     lineno |-> lineno, end_lineno |-> end_lineno]

\* CoverageAnalyzerAgent._load_symbols: every def/class node, in ast.walk order.
cov_load_symbols(nodes, file_path) ==
    [i \in 1..Len(nodes) |->
        ChangedSymbol(nodes[i].name,
                      IF nodes[i].node = "ClassDef" THEN "class" ELSE "function",
                      file_path, nodes[i].lineno, nodes[i].end_lineno)]

IsTopLevel(n) == n.depth = 0
\* TestGenerationAgent._load_symbols: the def/class statements of parsed.body.
gen_load_symbols(nodes) == SelectSeq(nodes, IsTopLevel)

\* ------------------------------------------------------- coverage analysis
\* An entry of the report's "files" mapping: absent, an empty dict, or a dict
\* with its "missing_lines".
NoEntry == [present |-> FALSE, falsy |-> TRUE, missing_lines |-> {}]
EmptyEntry == [present |-> TRUE, falsy |-> TRUE, missing_lines |-> {}]
Entry(missing) == [present |-> TRUE, falsy |-> FALSE, missing_lines |-> missing]

CoverageGap(file, missing_tests) == [file |-> file, missing_tests |-> missing_tests]

symbol_has_missing_lines(symbol, missing_lines) ==
    \E line \in symbol.lineno..symbol.end_lineno : line \in missing_lines

\* The names of the flagged symbols, in symbol order.
missing_tests_of(symbols, missing_lines) ==
    LET flagged(symbol) == symbol_has_missing_lines(symbol, missing_lines)
        hit == SelectSeq(symbols, flagged)
    IN  [i \in 1..Len(hit) |-> hit[i].name]

RECURSIVE find_gaps_keeping_empty(_, _, _)
\* A gap for every changed file with uncovered lines, flagged symbols or not.
find_gaps_keeping_empty(files_data, changed_files, src) ==
    IF Len(changed_files) = 0 THEN <<>>
    ELSE LET changed_file == Head(changed_files)
             file_data == files_data[changed_file]
             missing_lines == file_data.missing_lines
             symbols == cov_load_symbols(src[changed_file], changed_file)
             missing_tests == missing_tests_of(symbols, missing_lines)
             rest == find_gaps_keeping_empty(files_data, Tail(changed_files), src)
         IN  IF file_data.falsy THEN rest
             ELSE IF missing_lines = {} THEN rest
             ELSE <<CoverageGap(changed_file, missing_tests)>> \o rest

RECURSIVE find_gaps(_, _, _)
find_gaps(files_data, changed_files, src) ==
    IF Len(changed_files) = 0 THEN <<>>
    ELSE LET changed_file == Head(changed_files)
             file_data == files_data[changed_file]
             missing_lines == file_data.missing_lines
             symbols == cov_load_symbols(src[changed_file], changed_file)
             missing_tests == missing_tests_of(symbols, missing_lines)
             rest == find_gaps(files_data, Tail(changed_files), src)
         IN  IF file_data.falsy THEN rest
             ELSE IF missing_lines = {} THEN rest
             ELSE IF Len(missing_tests) > 0
                  THEN <<CoverageGap(changed_file, missing_tests)>> \o rest
                  ELSE rest

\* ---------------------------------------------------------- test discovery
\* Class names of the model's test files that start with "Test".
TestClassNames == {"TestUtil"}
\* node.name.startswith("Test")
StartsWithTestCls(cls) == cls \in TestClassNames

TestCaseInfo(name, file_path) == [name |-> name, file_path |-> file_path]

\* TestDiscoveryAgent._parse_test_cases.  ast.walk is breadth first: the
\* statements of the module come first (a def gives its name, a Test class the
\* qualified names of its methods), the methods themselves come after them and
\* give their bare names.  "async def" is no ast.FunctionDef.
RECURSIVE walk_module_body_classes_only(_, _)
\* A walk that records the methods of Test classes and misses bare test functions.
walk_module_body_classes_only(lines, test_file) ==
    IF Len(lines) = 0 THEN <<>>
    ELSE LET line == Head(lines)
             rest == walk_module_body_classes_only(Tail(lines), test_file)
         IN  IF line.k = "method" /\ StartsWithTestCls(line.txt)
                                 /\ StartsWithTest(line.name)
             THEN <<TestCaseInfo(Qualified(line.txt, line.name), test_file)>> \o rest
             ELSE rest

RECURSIVE walk_module_body(_, _)
walk_module_body(lines, test_file) ==
    IF Len(lines) = 0 THEN <<>>
    ELSE LET line == Head(lines)
             rest == walk_module_body(Tail(lines), test_file)
         IN  IF line.k = "def" /\ StartsWithTest(line.name)
             THEN <<TestCaseInfo(line.name, test_file)>> \o rest
             ELSE IF line.k = "method" /\ StartsWithTestCls(line.txt)
                                      /\ StartsWithTest(line.name)
             THEN <<TestCaseInfo(Qualified(line.txt, line.name), test_file)>> \o rest
             ELSE rest

RECURSIVE walk_class_bodies(_, _)
walk_class_bodies(lines, test_file) ==
    IF Len(lines) = 0 THEN <<>>
    ELSE LET line == Head(lines)
             rest == walk_class_bodies(Tail(lines), test_file)
         IN  IF line.k = "method" /\ StartsWithTest(line.name)
             THEN <<TestCaseInfo(line.name, test_file)>> \o rest
             ELSE rest

parse_test_cases(lines, test_file) ==
    walk_module_body(lines, test_file) \o walk_class_bodies(lines, test_file)

\* TestDiscoveryAgent.discover_tests: tests_by_file, for the test files on disk.
discover_tests(files) ==
    [test_file \in {t \in TestFiles : files[t].exists} |->
        parse_test_cases(files[test_file].lines, test_file)]

\* ---------------------------------------------------------- test generation
GeneratedTest(name, file_path) == [name |-> name, file_path |-> file_path]

\* f"import {module_path} as {module_alias}"
import_line_for(module_path, alias) == Import(module_path \o " as " \o alias)

\* index + 1 of the last line that starts with "import " or "from ", else 0
RECURSIVE last_import_index(_, _)
last_import_index(lines, index) ==
    IF index = 0 THEN 0
    ELSE IF lines[index].k \in {"import", "from"} THEN index
    ELSE last_import_index(lines, index - 1)

\* An insertion that does not look for the import line first.
ensure_module_import_unchecked(lines, module_path, alias) ==
    LET import_line == import_line_for(module_path, alias)
        insert_index == last_import_index(lines, Len(lines))
    IN  SubSeq(lines, 1, insert_index) \o <<import_line>>
            \o SubSeq(lines, insert_index + 1, Len(lines))

\* TestGenerationAgent._ensure_module_import
ensure_module_import(lines, module_path, alias) ==
    LET import_line == import_line_for(module_path, alias)
        insert_index == last_import_index(lines, Len(lines))
    IN  IF import_line \in Range(lines) THEN lines
        ELSE SubSeq(lines, 1, insert_index) \o <<import_line>>
                 \o SubSeq(lines, insert_index + 1, Len(lines))

\* TestGenerationAgent._default_from_name
default_from_name(name) ==
    CASE name = "int" -> "0"
      [] name = "float" -> "0.0"
      [] name = "str" -> "\"example\""
      [] name = "bool" -> "False"
      [] name = "list" -> "[]"
      [] name = "dict" -> "{}"
      [] OTHER -> "None"

\* TestGenerationAgent._default_value: an argument is given by the name of
\* its annotation, "" when it has none.
default_value(annotation) ==
    IF annotation = "" THEN "None" ELSE default_from_name(annotation)

call_args(symbol) ==
    Join([i \in 1..Len(symbol.args) |-> default_value(symbol.args[i])], ", ")

\* TestGenerationAgent._build_function_test
build_function_test(symbol, alias, test_name) ==
    LET call == alias \o "." \o symbol.name \o "(" \o call_args(symbol) \o ")"
        call_line == IF symbol.node = "AsyncFunctionDef"
                     THEN Body("result = await " \o call)
                     ELSE Body("result = " \o call)
    IN  <<Def(test_name),
          Body("\"\"\"Validate " \o symbol.name \o " executes with basic inputs.\"\"\""),
          Body("# Arrange"), Body("# Act"), call_line,
          Body("# Assert"), Body("assert result is not None")>>

\* TestGenerationAgent._build_class_test
build_class_test(symbol, alias, test_name) ==
    <<Def(test_name),
      Body("\"\"\"Ensure " \o symbol.name \o " can be instantiated.\"\"\""),
      Body("# Arrange"), Body("# Act"),
      Body("instance = " \o alias \o "." \o symbol.name \o "()"),
      Body("# Assert"), Body("assert instance is not None")>>

\* TestGenerationAgent._build_test_block: a block is the list of its lines.
build_test_block(symbol, alias, test_name) ==
    IF symbol.node \in {"FunctionDef", "AsyncFunctionDef"}
    THEN build_function_test(symbol, alias, test_name)
    ELSE build_class_test(symbol, alias, test_name)

\* The header of a test file that does not exist yet.
NewFileHeader == <<Text("\"\"\"Auto-generated tests.\"\"\""), Blank, Import("pytest"), Blank>>

\* The symbols of one gap that get a stub (test_generator.py lines 56-61).
symbols_to_generate(symbols, gap, existing_test_names) ==
    LET wanted(symbol) == /\ symbol.name \in Range(gap.missing_tests)
                          /\ TestName(symbol.name) \notin existing_test_names
    IN  SelectSeq(symbols, wanted)

\* One iteration that writes the test file whether or not it has a new block.
generate_for_gap_always_writing(gap, existing_test_names, src, files) ==
    LET module_path == module_path_for_file(gap.file)
        alias == module_alias(module_path)
        test_file == test_file_for_source(gap.file)
        content_lines == ensure_module_import(
            IF files[test_file].exists THEN files[test_file].lines ELSE NewFileHeader,
            Join(module_path, "."), alias)
        chosen == symbols_to_generate(gen_load_symbols(src[gap.file]), gap,
                                      existing_test_names)
        new_blocks == [i \in 1..Len(chosen) |->
                          build_test_block(chosen[i], alias, TestName(chosen[i].name))]
        updated == content_lines \o <<Blank>> \o Flatten(new_blocks)
    IN  [generated |-> [i \in 1..Len(chosen) |->
                           GeneratedTest(TestName(chosen[i].name), test_file)],
         files |-> [files EXCEPT ![test_file] = write_text(RStrip(updated))],
         written |-> <<test_file>>]

\* One iteration of the loop over coverage.gaps: the test file afterwards and
\* the GeneratedTests of this gap.
generate_for_gap(gap, existing_test_names, src, files) ==
    LET module_path == module_path_for_file(gap.file)
        alias == module_alias(module_path)
        test_file == test_file_for_source(gap.file)
        content_lines == ensure_module_import(
            IF files[test_file].exists THEN files[test_file].lines ELSE NewFileHeader,
            Join(module_path, "."), alias)
        chosen == symbols_to_generate(gen_load_symbols(src[gap.file]), gap,
                                      existing_test_names)
        new_blocks == [i \in 1..Len(chosen) |->
                          build_test_block(chosen[i], alias, TestName(chosen[i].name))]
        updated == content_lines \o <<Blank>> \o Flatten(new_blocks)
    IN  [generated |-> [i \in 1..Len(chosen) |->
                           GeneratedTest(TestName(chosen[i].name), test_file)],
         files |-> IF Len(new_blocks) > 0
                   THEN [files EXCEPT ![test_file] = write_text(RStrip(updated))]
                   ELSE files,
         written |-> IF Len(new_blocks) > 0 THEN <<test_file>> ELSE <<>>]

\* TestGenerationAgent.generate_tests: existing_test_names is computed once,
\* from the discovery result, before the loop.
\* written collects the write_text calls, by the file written.
RECURSIVE generate_loop(_, _, _, _, _, _)
generate_loop(gaps, existing_test_names, src, files, generated, written) ==
    IF Len(gaps) = 0
    THEN [generated_tests |-> generated, files |-> files, written |-> written]
    ELSE LET step == generate_for_gap(Head(gaps), existing_test_names, src, files)
         IN  generate_loop(Tail(gaps), existing_test_names, src, step.files,
                           generated \o step.generated, written \o step.written)

existing_names_of(tests_by_file) ==
    UNION {{tests_by_file[t][i].name : i \in 1..Len(tests_by_file[t])} :
           t \in DOMAIN tests_by_file}

generate_tests(gaps, tests_by_file, src, files) ==
    generate_loop(gaps, existing_names_of(tests_by_file), src, files, <<>>, <<>>)

\* --------------------------------------------------------------- validation
\* ValidationAgent._run_pytest, by what running "pytest" did.
ValidationResult(success, output, skipped) ==
    [success |-> success, output |-> output, skipped |-> skipped]

run_pytest(outcome) ==
    CASE outcome = "exit0" -> ValidationResult(TRUE, "stdout+stderr", FALSE)
      [] outcome = "nonzero" -> ValidationResult(FALSE, "stdout+stderr", FALSE)
      [] outcome = "notfound" -> ValidationResult(TRUE, "Pytest not available.", TRUE)

PytestOutcomes == {"exit0", "nonzero", "notfound"}

\* A correction that looks for "def <name>(" anywhere in the line instead of at
\* its start: "async def" lines and indented methods match as well.
RECURSIVE annotate_anywhere(_, _)
annotate_anywhere(lines, name) ==
    IF Len(lines) = 0 THEN <<>>
    ELSE LET line == Head(lines)
         IN  (IF line.k \in {"def", "asyncdef", "method"} /\ line.name = name
              THEN <<XfailLine, line>> ELSE <<line>>)
                 \o annotate_anywhere(Tail(lines), name)

\* validator.py lines 58-64: the annotation goes above every line that starts
\* with "def <name>(".
RECURSIVE annotate(_, _)
annotate(lines, name) ==
    IF Len(lines) = 0 THEN <<>>
    ELSE LET line == Head(lines)
         IN  (IF line.k = "def" /\ line.name = name THEN <<XfailLine, line>> ELSE <<line>>)
                 \o annotate(Tail(lines), name)

\* One iteration of the loop of _auto_correct_generated_tests.
auto_correct_one(generated_test, files) ==
    LET test_file == generated_test.file_path
        lines == files[test_file].lines
        updated_lines == annotate(lines, generated_test.name)
        with_import == IF \A i \in 1..Len(lines) : ~MentionsPytest(lines[i])
                       THEN <<Import("pytest")>> \o updated_lines
                       ELSE updated_lines
    IN  IF ~files[test_file].exists THEN files
        ELSE [files EXCEPT ![test_file] = write_text(with_import)]

\* ValidationAgent._auto_correct_generated_tests
RECURSIVE auto_correct_generated_tests(_, _)
auto_correct_generated_tests(generated_tests, files) ==
    IF Len(generated_tests) = 0 THEN files
    ELSE auto_correct_generated_tests(Tail(generated_tests),
                                      auto_correct_one(Head(generated_tests), files))

\* ------------------------------------------------------------ change detection
\* A name printed by "git diff --name-only".
GitName(path, suffix) == [path |-> path, suffix |-> suffix]
GitNames ==
    {GitName(f, ".py") : f \in SourceFiles}
        \cup {GitName(<<"tests", "test_util">>, ".py"),   \* not under src/
              GitName(<<"src", "notes">>, ".md"),          \* no Python file
              GitName(<<"src", "gone">>, ".py")}           \* deleted by the change

\* change_detector.py lines 55-61: the .py files under src/ that exist.
RECURSIVE filter_src_files(_)
filter_src_files(names) ==
    IF Len(names) = 0 THEN <<>>
    ELSE LET file == Head(names)
             rest == filter_src_files(Tail(names))
         IN  IF /\ file.suffix = ".py"
                /\ Len(file.path) > 1 /\ file.path[1] = "src"
                /\ file.path \in SourceFiles
             THEN <<file.path>> \o rest
             ELSE rest

\* _detect_changed_files for which a missing git is an error.
detect_changed_files_git_required(primary, fallback, names) ==
    CASE primary = "exit0" -> [raised |-> FALSE, files |-> filter_src_files(names)]
      [] primary = "nonzero" /\ fallback = "exit0" ->
            [raised |-> FALSE, files |-> filter_src_files(names)]
      [] OTHER -> [raised |-> TRUE, files |-> <<>>]

\* ChangeDetectionAgent._detect_changed_files, by what the two git calls did:
\* "exit0" (with the names printed), "nonzero" (CalledProcessError) or
\* "notfound" (FileNotFoundError).  The fallback runs inside the first except
\* clause, so what it raises is caught by no clause of this try statement.
detect_changed_files(primary, fallback, names) ==
    CASE primary = "exit0" -> [raised |-> FALSE, files |-> filter_src_files(names)]
      [] primary = "notfound" -> [raised |-> FALSE, files |-> <<>>]
      [] primary = "nonzero" /\ fallback = "exit0" ->
            [raised |-> FALSE, files |-> filter_src_files(names)]
      [] OTHER -> [raised |-> TRUE, files |-> <<>>]

ToolOutcomes == {"exit0", "nonzero", "notfound"}

\* ChangeDetectionAgent._parse_symbols: every def/class node, in ast.walk order.
parse_symbols(nodes, file_path) ==
    [i \in 1..Len(nodes) |->
        ChangedSymbol(nodes[i].name,
                      IF nodes[i].node = "ClassDef" THEN "class" ELSE "function",
                      file_path, nodes[i].lineno, nodes[i].end_lineno)]

\* A line printed by "git diff -U0" is the sequence of its tokens: "+", "-",
\* " ", "(", ":", the keywords and the other words.
\* line.startswith("+")
StartsWithPlus(line) == Len(line) >= 1 /\ line[1] = "+"
\* line.startswith("+++")
StartsWithPlusPlusPlus(line) ==
    Len(line) >= 3 /\ line[1] = "+" /\ line[2] = "+" /\ line[3] = "+"
\* line.lstrip("+")
RECURSIVE LStripPlus(_)
LStripPlus(line) ==
    IF Len(line) > 0 /\ line[1] = "+" THEN LStripPlus(Tail(line)) ELSE line
\* text.strip()
RECURSIVE Strip(_)
Strip(line) ==
    IF Len(line) > 0 /\ line[1] = " " THEN Strip(Tail(line))
    ELSE IF Len(line) > 0 /\ line[Len(line)] = " "
         THEN Strip(SubSeq(line, 1, Len(line) - 1))
         ELSE line
\* stripped.startswith("def "), stripped.startswith("class ")
StartsWithKeyword(stripped, keyword) ==
    Len(stripped) >= 2 /\ stripped[1] = keyword /\ stripped[2] = " "
\* stripped.split("def ", 1)[1] of a text that starts with "def "
AfterKeyword(stripped) == SubSeq(stripped, 3, Len(stripped))
\* text.split(sep, 1)[0]
RECURSIVE BeforeFirst(_, _)
BeforeFirst(text, sep) ==
    IF Len(text) = 0 \/ text[1] = sep THEN <<>>
    ELSE <<text[1]>> \o BeforeFirst(Tail(text), sep)

\* The names one diff line adds to the set (change_detector.py lines 87-97).
names_of_line(line) ==
    IF ~StartsWithPlus(line) \/ StartsWithPlusPlusPlus(line) THEN {}
    ELSE LET stripped == Strip(LStripPlus(line))
             def_name == Join(Strip(BeforeFirst(AfterKeyword(stripped), "(")), "")
             class_name ==
                 Join(Strip(BeforeFirst(BeforeFirst(AfterKeyword(stripped), "("), ":")), "")
         IN  (IF StartsWithKeyword(stripped, "def") /\ def_name # ""
              THEN {def_name} ELSE {})
                 \cup (IF StartsWithKeyword(stripped, "class") /\ class_name # ""
                       THEN {class_name} ELSE {})

\* ChangeDetectionAgent._extract_changed_names
extract_changed_names(diff_lines) ==
    UNION {names_of_line(diff_lines[i]) : i \in 1..Len(diff_lines)}

\* ChangeDetectionAgent._diff_zero_context, by what "git diff -U0" did and
\* printed: a CalledProcessError gives no lines, a FileNotFoundError is caught
\* by no clause.
diff_zero_context(outcome, output) ==
    CASE outcome = "exit0" -> [raised |-> FALSE, lines |-> output]
      [] outcome = "nonzero" -> [raised |-> FALSE, lines |-> <<>>]
      [] OTHER -> [raised |-> TRUE, lines |-> <<>>]

\* _detect_changed_symbols that returns the filtered list even when it is empty.
detect_changed_symbols_filtered_only(diff_lines, symbols) ==
    LET candidate_names == extract_changed_names(diff_lines)
        named(symbol) == symbol.name \in candidate_names
    IN  IF candidate_names = {} THEN symbols ELSE SelectSeq(symbols, named)

\* ChangeDetectionAgent._detect_changed_symbols, lines 65-70
detect_changed_symbols(diff_lines, symbols) ==
    LET candidate_names == extract_changed_names(diff_lines)
        named(symbol) == symbol.name \in candidate_names
        filtered == SelectSeq(symbols, named)
    IN  IF candidate_names = {} THEN symbols
        ELSE IF filtered # <<>> THEN filtered ELSE symbols

\* detect_changes, lines 37-39: the loop over the changed files.  diffs gives,
\* for each file, what its "git diff -U0" did and printed.
RECURSIVE changed_symbols_of(_, _, _)
changed_symbols_of(changed, diffs, src) ==
    IF Len(changed) = 0 THEN [raised |-> FALSE, symbols |-> <<>>]
    ELSE LET file == Head(changed)
             diff == diff_zero_context(diffs[file].outcome, diffs[file].output)
             rest == changed_symbols_of(Tail(changed), diffs, src)
         IN  IF diff.raised \/ rest.raised THEN [raised |-> TRUE, symbols |-> <<>>]
             ELSE [raised |-> FALSE,
                   symbols |-> detect_changed_symbols(diff.lines,
                                                      parse_symbols(src[file], file))
                                   \o rest.symbols]

\* ChangeDetectionAgent.detect_changes
detect_changes(primary, fallback, names, diffs, src) ==
    LET found == detect_changed_files(primary, fallback, names)
        symbols == changed_symbols_of(found.files, diffs, src)
    IN  IF found.raised \/ symbols.raised
        THEN [raised |-> TRUE, changed_files |-> <<>>, changed_symbols |-> <<>>]
        ELSE [raised |-> FALSE, changed_files |-> found.files,
              changed_symbols |-> symbols.symbols]

\* ------------------------------------------------------------------- state
VARIABLES
    pc,                 \* where AITestRunner.run (or the harness of a function) is
    dry_run,            \* RunnerConfig.dry_run
    sources,            \* the source tree: file -> its def/class nodes
    files,              \* the test tree: test file -> absent, or its lines
    coverage_json,      \* coverage.json on disk: "absent", "stale" or "fresh"
    changed_files,      \* ChangeDetectionResult.changed_files
    tests_by_file,      \* TestDiscoveryResult.tests_by_file
    files_data,         \* gap harness: coverage_data["files"], the report given
    gaps,               \* CoverageAnalysisResult.gaps
    coverage_json_path, \* CoverageAnalysisResult.coverage_json_path is not None
    generated_tests,    \* TestGenerationResult.generated_tests
    first_result,       \* validate: result of the first _run_pytest
    validation,         \* what validate returned
    exit_code,          \* what run returned (-1: nothing yet)
    calls,              \* history: the agent methods called so far, in order
    files_before,       \* history: the test tree before the last generate_tests
    files_generated,    \* history: the test tree as the last generate_tests left it
    round,              \* generation harness: rounds of discovery + generation done
    first_generated,    \* generation harness: generated_tests of the first round
    module_file,        \* import harness: the source file whose module is imported
    lines_in,           \* import harness: the lines given
    lines_once,         \* import harness: after one _ensure_module_import
    lines_twice,        \* import harness: after two
    changed_symbols,    \* ChangeDetectionResult.changed_symbols
    writes,             \* history: the test files the last generate_tests wrote, in order
    diff_output,        \* symbol harness: the lines "git diff -U0" printed
    tool_runs           \* history: the git and coverage commands run, with what each did

vars == <<pc, dry_run, sources, files, coverage_json, changed_files, tests_by_file,
          files_data, gaps, coverage_json_path, generated_tests, first_result,
          validation, exit_code, calls, files_before, files_generated, round,
          first_generated, module_file, lines_in, lines_once, lines_twice,
          changed_symbols, writes, diff_output, tool_runs>>

NoResult == ValidationResult(FALSE, "<none>", FALSE)
NoData == [f \in SourceFiles |-> NoEntry]
NoTests == [t \in {} |-> <<>>]

\* ------------------------------------------------------------ example trees
\* src/a/util.py, with a method named like the function:
\*   1 def foo(n: int): return n + 1
\*   2 class Widget:
\*   3     def foo(self): return 0
UtilA1 == <<Node("foo", "FunctionDef", <<"int">>, 1, 1, 0),
            Node("Widget", "ClassDef", <<>>, 2, 3, 0),
            Node("foo", "FunctionDef", <<"">>, 3, 3, 1)>>
\* src/a/util.py, with foo defined twice in the module body:
\*   1 def foo(): return 1
\*   2 def foo(flag: bool):
\*   3     return 2
UtilA2 == <<Node("foo", "FunctionDef", <<>>, 1, 1, 0),
            Node("foo", "FunctionDef", <<"bool">>, 2, 3, 0)>>
\* src/b/util.py:
\*   1 async def foo(s: str, x):
\*   2     return s
\*   3 def bar(): return 1
UtilB == <<Node("foo", "AsyncFunctionDef", <<"str", "">>, 1, 2, 0),
           Node("bar", "FunctionDef", <<>>, 3, 3, 0)>>
\* src/m.py:
\*   1 class Widget:
\*   2     def bar(self, xs: list):
\*   3         return xs
ModM == <<Node("Widget", "ClassDef", <<>>, 1, 3, 0),
          Node("bar", "FunctionDef", <<"", "list">>, 2, 3, 1)>>

SourceTrees ==
    {[f \in SourceFiles |->
        CASE f = <<"src", "a", "util">> -> a
          [] f = <<"src", "b", "util">> -> UtilB
          [] OTHER -> m] : a \in {UtilA1, UtilA2}, m \in {ModM, <<>>}}

\* tests/test_util.py written by hand with unittest:
TestUtilUnittest ==
    OnDisk(<<Import("unittest"), Blank, ClassLine("TestUtil"),
             Method("TestUtil", TestName("bar")), Body("self.assertTrue(True)")>>)
\* tests/test_util.py that already imports src/a/util.py under its alias:
TestUtilPytest ==
    OnDisk(<<Import("pytest"), Import("src.a.util as src_a_util_module"), Blank,
             AsyncDef(TestName("foo")), Body("await src_a_util_module.foo(1)"),
             Def(TestName("Widget")), Body("assert src_a_util_module.Widget()")>>)
\* tests/test_m.py:
TestMExisting ==
    OnDisk(<<Text("# tests of m"), Def(TestName("other")), Body("assert True")>>)
\* tests/test_misc.py:
TestMiscExisting == OnDisk(<<Def(TestName("bar")), Body("assert True")>>)

TestTrees ==
    {[t \in TestFiles |->
        CASE t = <<"tests", "test_util">> -> u
          [] t = <<"tests", "test_m">> -> m
          [] OTHER -> x] :
        u \in {Absent, TestUtilUnittest, TestUtilPytest},
        m \in {Absent, TestMExisting},
        x \in {Absent, TestMiscExisting}}

\* Lines of a zero-context diff:
\*   +def <name>():
AddedDef(name) == <<"+", "def", " ", name, "(", ")", ":">>
\*   +    def <name>(self):
AddedMethod(name) == <<"+", " ", " ", "def", " ", name, "(", "self", ")", ":">>
\*   +class <name>:
AddedClass(name) == <<"+", "class", " ", name, ":">>
\*   +class <name>(Base):
AddedSubclass(name) == <<"+", "class", " ", name, "(", "Base", ")", ":">>
\*   +async def <name>():
AddedAsyncDef(name) == <<"+", "async", " ", "def", " ", name, "(", ")", ":">>
\*   -def <name>():
RemovedDef(name) == <<"-", "def", " ", name, "(", ")", ":">>
\*   +    return 1
AddedBody == <<"+", " ", " ", "return", " ", "1">>
\*   +def (
AddedDefNameless == <<"+", "def", " ", "(">>
\*   +++ b/src/a/util.py
FileHeader == <<"+", "+", "+", " ", "b/src/a/util.py">>
\*   @@ -1 +1 @@
HunkHeader == <<"@@", " ", "-1", " ", "+1", " ", "@@">>

\* What "git diff -U0" did and printed for one file.
Diff(outcome, output) == [outcome |-> outcome, output |-> output]
\* In a run of the pipeline, for each of its files alike: the diff fails, names
\* foo as added, or git is gone.
RunDiffs ==
    {Diff("nonzero", <<>>),
     Diff("exit0", <<FileHeader, HunkHeader, AddedDef("foo")>>),
     Diff("notfound", <<>>)}

\* ------------------------------------------------------------ the pipeline
Call(op, outcome) == [op |-> op, outcome |-> outcome]

\* The "files" mappings a coverage run may report for the files in F.
EntriesOver(lines) == {NoEntry, EmptyEntry} \cup {Entry(m) : m \in SUBSET lines}
\* The lines of the example source files.
ExampleLines == 1..3
\* In a run of the pipeline: no entry, an empty one, or one whose missing lines
\* are none, the first, the last or all of the example lines.
RunEntries ==
    {NoEntry, EmptyEntry} \cup {Entry(m) : m \in {{}, {1}, {3}, ExampleLines}}
ReportsOver(F) ==
    [SourceFiles -> {NoEntry}] \cup
    {[f \in SourceFiles |-> IF f \in F THEN d[f] ELSE NoEntry] :
        d \in [F -> RunEntries]}

HarnessIdle ==
    /\ round = 0
    /\ first_generated = <<>>
    /\ module_file = <<>>
    /\ lines_in = <<>>
    /\ lines_once = <<>>
    /\ lines_twice = <<>>

AuxIdle ==
    /\ changed_symbols = <<>>
    /\ writes = <<>>
    /\ diff_output = <<>>
    /\ tool_runs = <<>>

harnessVars == <<round, first_generated, module_file, lines_in, lines_once, lines_twice>>

RunIdle ==
    /\ changed_files = <<>>
    /\ tests_by_file = NoTests
    /\ files_data = NoData
    /\ gaps = <<>>
    /\ coverage_json_path = FALSE
    /\ generated_tests = <<>>
    /\ first_result = NoResult
    /\ validation = NoResult
    /\ exit_code = -1
    /\ calls = <<>>

\* AITestRunner.__init__ on some repository, before run().
Init ==
    /\ pc = "run"
    /\ AuxIdle
    /\ dry_run \in BOOLEAN
    /\ sources \in SourceTrees
    /\ files \in TestTrees
    /\ coverage_json \in {"absent", "stale"}
    /\ files_before = files
    /\ files_generated = files
    /\ RunIdle
    /\ HarnessIdle

\* The git calls of one detect_changes, in order, with what each did.
git_calls(primary, fallback, changed, diffs) ==
    <<Call("git diff --name-only HEAD~1 HEAD", primary)>>
        \o (IF primary = "nonzero"
            THEN <<Call("git diff --name-only HEAD", fallback)>> ELSE <<>>)
        \o [i \in 1..Len(changed) |-> Call("git diff -U0", diffs[changed[i]].outcome)]

\* run, line 39: self.change_detector.detect_changes()
DetectChanges ==
    /\ pc = "run"
    /\ \E primary \in ToolOutcomes, fallback \in ToolOutcomes,
          names \in DistinctSeqs(GitNames, MaxChanged),
          diffs \in {[f \in SourceFiles |-> d] : d \in RunDiffs} :
          LET r == detect_changes(primary, fallback, names, diffs, sources)
              found == detect_changed_files(primary, fallback, names).files
          IN  /\ pc' = IF r.raised THEN "raised" ELSE "detected"
              /\ changed_files' = r.changed_files
              /\ changed_symbols' = r.changed_symbols
              /\ tool_runs' = tool_runs \o git_calls(primary, fallback, found, diffs)
    /\ calls' = Append(calls, Call("detect_changes", ""))
    /\ UNCHANGED <<dry_run, sources, files, coverage_json, tests_by_file, files_data,
                   gaps, coverage_json_path, generated_tests, first_result,
                   validation, exit_code, files_before, files_generated, harnessVars,
                   writes, diff_output>>

\* run, line 40: self.test_discovery.discover_tests()
DiscoverTests ==
    /\ pc = "detected"
    /\ tests_by_file' = discover_tests(files)
    /\ calls' = Append(calls, Call("discover_tests", ""))
    /\ pc' = "discovered"
    /\ UNCHANGED <<dry_run, sources, files, coverage_json, changed_files, files_data,
                   gaps, coverage_json_path, generated_tests, first_result,
                   validation, exit_code, files_before, files_generated, harnessVars,
                   changed_symbols, writes, diff_output, tool_runs>>

\* CoverageAnalyzerAgent._run_coverage: the path of coverage.json after exit
\* status 0, None otherwise.
run_coverage(outcome) == outcome = "exit0"

\* CoverageAnalyzerAgent.analyze, given what the coverage run did (outcome,
\* whether it wrote coverage.json) and the data read from the report.
analyze(outcome, report_on_disk, data, changed, src) ==
    IF ~run_coverage(outcome) \/ report_on_disk = "absent"
    THEN [gaps |-> <<>>, coverage_json_path |-> FALSE]
    ELSE [gaps |-> find_gaps(data, changed, src), coverage_json_path |-> TRUE]

\* run, line 41: self.coverage_analyzer.analyze(changes).  The report is read
\* only after a coverage run that exited 0 with coverage.json on disk.
Analyze ==
    /\ pc = "discovered"
    /\ \E outcome \in ToolOutcomes, wrote \in BOOLEAN :
          LET on_disk == IF outcome # "notfound" /\ wrote THEN "fresh" ELSE coverage_json
              readable == run_coverage(outcome) /\ on_disk # "absent"
          IN  \E data \in IF readable THEN ReportsOver(Range(changed_files)) ELSE {NoData} :
                LET r == analyze(outcome, on_disk, data, changed_files, sources)
                IN  /\ coverage_json' = on_disk
                    /\ gaps' = r.gaps
                    /\ coverage_json_path' = r.coverage_json_path
                    /\ tool_runs' = Append(tool_runs, Call("pytest --cov", outcome))
    /\ calls' = Append(calls, Call("analyze", ""))
    /\ pc' = "analyzed"
    /\ UNCHANGED <<dry_run, sources, files, changed_files, tests_by_file, files_data,
                   generated_tests, first_result, validation, exit_code,
                   files_before, files_generated, harnessVars,
                   changed_symbols, writes, diff_output>>

\* run, lines 42-44
DryRunReturn ==
    /\ pc = "analyzed"
    /\ dry_run
    /\ exit_code' = 0
    /\ pc' = "returned"
    /\ UNCHANGED <<dry_run, sources, files, coverage_json, changed_files, tests_by_file,
                   files_data, gaps, coverage_json_path, generated_tests, first_result,
                   validation, calls, files_before, files_generated, harnessVars,
                   changed_symbols, writes, diff_output, tool_runs>>

\* run without the dry-run return: generation goes ahead whatever dry_run is.
GenerateTests_IgnoringDryRun ==
    /\ pc = "analyzed"
    /\ LET r == generate_tests(gaps, tests_by_file, sources, files)
       IN  /\ generated_tests' = r.generated_tests
           /\ files' = r.files
           /\ files_generated' = r.files
           /\ writes' = r.written
    /\ files_before' = files
    /\ calls' = Append(calls, Call("generate_tests", ""))
    /\ pc' = "generated"
    /\ UNCHANGED <<dry_run, sources, coverage_json, changed_files, tests_by_file,
                   files_data, gaps, coverage_json_path, first_result, validation,
                   exit_code, harnessVars,
                   changed_symbols, diff_output, tool_runs>>

\* run, line 46: self.test_generator.generate_tests(coverage, discovery)
GenerateTests ==
    /\ pc = "analyzed"
    /\ ~dry_run
    /\ LET r == generate_tests(gaps, tests_by_file, sources, files)
       IN  /\ generated_tests' = r.generated_tests
           /\ files' = r.files
           /\ files_generated' = r.files
           /\ writes' = r.written
    /\ files_before' = files
    /\ calls' = Append(calls, Call("generate_tests", ""))
    /\ pc' = "generated"
    /\ UNCHANGED <<dry_run, sources, coverage_json, changed_files, tests_by_file,
                   files_data, gaps, coverage_json_path, first_result, validation,
                   exit_code, harnessVars,
                   changed_symbols, diff_output, tool_runs>>

\* validate returning early on success only, a skipped run being corrected.
ValidateFirstRun_SuccessOnly ==
    /\ pc = "generated"
    /\ \E outcome \in PytestOutcomes :
          LET result == run_pytest(outcome)
          IN  /\ first_result' = result
              /\ calls' = calls \o <<Call("validate", ""), Call("_run_pytest", outcome)>>
              /\ IF result.success /\ ~result.skipped
                 THEN validation' = result /\ pc' = "validated"
                 ELSE validation' = validation /\ pc' = "validate_failed"
    /\ UNCHANGED <<dry_run, sources, files, coverage_json, changed_files, tests_by_file,
                   files_data, gaps, coverage_json_path, generated_tests, exit_code,
                   files_before, files_generated, harnessVars,
                   changed_symbols, writes, diff_output, tool_runs>>

\* validate, lines 28-30: the first _run_pytest and the early return
ValidateFirstRun ==
    /\ pc = "generated"
    /\ \E outcome \in PytestOutcomes :
          LET result == run_pytest(outcome)
          IN  /\ first_result' = result
              /\ calls' = calls \o <<Call("validate", ""), Call("_run_pytest", outcome)>>
              /\ IF result.success \/ result.skipped
                 THEN validation' = result /\ pc' = "validated"
                 ELSE validation' = validation /\ pc' = "validate_failed"
    /\ UNCHANGED <<dry_run, sources, files, coverage_json, changed_files, tests_by_file,
                   files_data, gaps, coverage_json_path, generated_tests, exit_code,
                   files_before, files_generated, harnessVars,
                   changed_symbols, writes, diff_output, tool_runs>>

\* The environment: a test file written by generate_tests is gone by the time
\* the correction looks for it (validator.py line 55 provides for this).
TestFileVanishes ==
    /\ pc = "validate_failed"
    /\ \E i \in 1..Len(generated_tests) :
          /\ files[generated_tests[i].file_path].exists
          /\ files' = [files EXCEPT ![generated_tests[i].file_path] = Absent]
    /\ UNCHANGED <<pc, dry_run, sources, coverage_json, changed_files, tests_by_file,
                   files_data, gaps, coverage_json_path, generated_tests, first_result,
                   validation, exit_code, calls, files_before, files_generated,
                   harnessVars,
                   changed_symbols, writes, diff_output, tool_runs>>

\* validate, lines 31-32
ValidateAutoCorrect ==
    /\ pc = "validate_failed"
    /\ files' = auto_correct_generated_tests(generated_tests, files)
    /\ calls' = Append(calls, Call("_auto_correct_generated_tests", ""))
    /\ pc' = "validate_corrected"
    /\ UNCHANGED <<dry_run, sources, coverage_json, changed_files, tests_by_file,
                   files_data, gaps, coverage_json_path, generated_tests, first_result,
                   validation, exit_code, files_before, files_generated, harnessVars,
                   changed_symbols, writes, diff_output, tool_runs>>

\* validate retrying until the suite passes.
ValidateRetry_UntilPass ==
    /\ pc = "validate_corrected"
    /\ \E outcome \in PytestOutcomes :
          /\ validation' = run_pytest(outcome)
          /\ calls' = Append(calls, Call("_run_pytest", outcome))
          /\ pc' = IF outcome = "nonzero" THEN "validate_failed" ELSE "validated"
    /\ UNCHANGED <<dry_run, sources, files, coverage_json, changed_files, tests_by_file,
                   files_data, gaps, coverage_json_path, generated_tests, first_result,
                   exit_code, files_before, files_generated, harnessVars,
                   changed_symbols, writes, diff_output, tool_runs>>

\* validate, lines 33-34: the retry, returned whatever it is
ValidateRetry ==
    /\ pc = "validate_corrected"
    /\ \E outcome \in PytestOutcomes :
          /\ validation' = run_pytest(outcome)
          /\ calls' = Append(calls, Call("_run_pytest", outcome))
    /\ pc' = "validated"
    /\ UNCHANGED <<dry_run, sources, files, coverage_json, changed_files, tests_by_file,
                   files_data, gaps, coverage_json_path, generated_tests, first_result,
                   exit_code, files_before, files_generated, harnessVars,
                   changed_symbols, writes, diff_output, tool_runs>>

\* run failing whenever validation did not end in a passing run.
Return_SkippedFails ==
    /\ pc = "validated"
    /\ exit_code' = IF ~validation.success \/ validation.skipped THEN 1 ELSE 0
    /\ pc' = "returned"
    /\ UNCHANGED <<dry_run, sources, files, coverage_json, changed_files, tests_by_file,
                   files_data, gaps, coverage_json_path, generated_tests, first_result,
                   validation, calls, files_before, files_generated, harnessVars,
                   changed_symbols, writes, diff_output, tool_runs>>

\* run, lines 49-58
Return ==
    /\ pc = "validated"
    /\ exit_code' = IF ~validation.success THEN 1 ELSE 0
    /\ pc' = "returned"
    /\ UNCHANGED <<dry_run, sources, files, coverage_json, changed_files, tests_by_file,
                   files_data, gaps, coverage_json_path, generated_tests, first_result,
                   validation, calls, files_before, files_generated, harnessVars,
                   changed_symbols, writes, diff_output, tool_runs>>

Next ==
    \/ DetectChanges
    \/ DiscoverTests
    \/ Analyze
    \/ DryRunReturn
    \/ GenerateTests
    \/ ValidateFirstRun
    \/ TestFileVanishes
    \/ ValidateAutoCorrect
    \/ ValidateRetry
    \/ Return

Spec == Init /\ [][Next]_vars

\* ------------------------------------------------- properties of the pipeline
CountOp(op) == Cardinality({i \in 1..Len(calls) : calls[i].op = op})

InValidate(call) == call.op \in {"_run_pytest", "_auto_correct_generated_tests"}
\* What validate has called so far.
ValidateCalls == SelectSeq(calls, InValidate)

FirstRunFailed == first_result = run_pytest("nonzero")
Corrected == CountOp("_auto_correct_generated_tests") > 0

\* C1: one call of validate runs the test suite at most twice and corrects at
\* most once, whatever was generated and whatever the runs give; there is no
\* third run.
C1_BoundedRetry ==
    /\ CountOp("_run_pytest") <= 2
    /\ CountOp("_auto_correct_generated_tests") <= 1
    /\ CountOp("validate") <= 1

\* A validation of several generated tests whose retry failed too, and run
\* returned.
C1_Witness ==
    /\ pc = "returned"
    /\ Len(generated_tests) >= 2
    /\ CountOp("_run_pytest") = 2
    /\ ~validation.success

\* C2: validate takes one of two paths.  Either the first run succeeds or is
\* skipped, and that result is returned with no correction, no second run and
\* the test tree as generation left it; or the first run fails, the correction
\* follows, then the second run, whose result is what validate returns.
C2_TwoPaths ==
    LET v == ValidateCalls
    IN  /\ pc = "validate_failed" => v = <<Call("_run_pytest", "nonzero")>>
        /\ pc = "validate_corrected" =>
               v = <<Call("_run_pytest", "nonzero"),
                     Call("_auto_correct_generated_tests", "")>>
        /\ (pc \in {"validated", "returned"} /\ ~dry_run) =>
               \/ /\ Len(v) = 1
                  /\ v[1].op = "_run_pytest"
                  /\ v[1].outcome \in {"exit0", "notfound"}
                  /\ validation = run_pytest(v[1].outcome)
                  /\ validation = first_result
                  /\ files = files_generated
               \/ /\ Len(v) = 3
                  /\ v[1] = Call("_run_pytest", "nonzero")
                  /\ v[2] = Call("_auto_correct_generated_tests", "")
                  /\ v[3].op = "_run_pytest"
                  /\ validation = run_pytest(v[3].outcome)

\* validate returned the passing second run that followed a correction.
C2_Witness ==
    /\ pc = "validated"
    /\ Len(ValidateCalls) = 3
    /\ FirstRunFailed
    /\ validation.success /\ ~validation.skipped
    /\ files # files_generated

IsDecl(line) == line.k \in {"def", "asyncdef", "method"}
\* The indexes of the declaration lines, in order.
DeclIndexes(lines) ==
    LET decl(i) == IsDecl(lines[i])
    IN  SelectSeq([i \in 1..Len(lines) |-> i], decl)
\* How many expected-failure annotations stand directly above line i.
RECURSIVE AnnotationsAbove(_, _)
AnnotationsAbove(lines, i) ==
    IF i > 1 /\ lines[i - 1] = XfailLine THEN 1 + AnnotationsAbove(lines, i - 1) ELSE 0

GeneratedIn(test_file) ==
    {i \in 1..Len(generated_tests) : generated_tests[i].file_path = test_file}

\* C3: after the correction that follows a failed first run, in every test
\* file that still exists the declarations are those generation left, every
\* declaration of a GeneratedTest of this run has the annotation on the line
\* directly above it, and no declaration that was there before generation has
\* gained one.
C3_OnlyGeneratedAnnotated ==
    Corrected =>
        \A t \in TestFiles :
            files[t].exists =>
                LET before == files_generated[t].lines
                    after == files[t].lines
                    db == DeclIndexes(before)
                    da == DeclIndexes(after)
                    old == Len(DeclIndexes(files_before[t].lines))
                IN  /\ Len(da) = Len(db)
                    /\ Len(db) - old = Cardinality(GeneratedIn(t))
                    /\ \A j \in 1..Len(db) :
                          /\ after[da[j]] = before[db[j]]
                          /\ j <= old =>
                                AnnotationsAbove(after, da[j]) = AnnotationsAbove(before, db[j])
                          /\ j > old =>
                                /\ AnnotationsAbove(before, db[j]) = 0
                                /\ AnnotationsAbove(after, da[j]) > 0

\* A corrected test file that holds both an older declaration and a generated
\* one, while another generated test's file is gone.
C3_Witness ==
    /\ pc = "validate_corrected"
    /\ \E t \in TestFiles :
          /\ files[t].exists
          /\ Len(DeclIndexes(files_before[t].lines)) > 0
          /\ GeneratedIn(t) # {}
    /\ \E t \in TestFiles : ~files[t].exists /\ GeneratedIn(t) # {}

\* C4: run returns 1 exactly when it is no dry run and the validation it got
\* has success = false; it returns 0 when validation succeeded or was skipped,
\* with or without changed files, coverage data or gaps.
C4_ExitStatus ==
    pc = "returned" =>
        /\ exit_code \in {0, 1}
        /\ exit_code = 1 <=> (~dry_run /\ ~validation.success)
        /\ (~dry_run /\ (validation.success \/ validation.skipped)) => exit_code = 0

\* A run without changed files and without coverage data that returned 1
\* because the suite failed twice.
C4_Witness ==
    /\ pc = "returned"
    /\ exit_code = 1
    /\ changed_files = <<>>
    /\ ~coverage_json_path
    /\ gaps = <<>>

\* C5: a dry run calls change detection, test discovery and coverage analysis
\* and nothing else, leaves the test tree as it found it, and returns 0.
C5_DryRun ==
    dry_run =>
        /\ \A i \in 1..Len(calls) :
              calls[i].op \in {"detect_changes", "discover_tests", "analyze"}
        /\ files = files_before
        /\ generated_tests = <<>>
        /\ pc = "returned" =>
              /\ exit_code = 0
              /\ calls = <<Call("detect_changes", ""), Call("discover_tests", ""),
                           Call("analyze", "")>>

\* A dry run that found coverage gaps and returned.
C5_Witness ==
    /\ dry_run
    /\ pc = "returned"
    /\ gaps # <<>>

\* ------------------------------------------------------ generation harness
\* generate_tests on any gap list, then discovery and generation once more on
\* the same gaps.  A gap lists one name, or foo and one more name (foo again
\* when two symbols named foo are flagged); "gone" is the name of no symbol.
GapNames == {"foo", "bar", "Widget", "gone"}
MissingLists == {<<n>> : n \in GapNames} \cup {<<"foo", n>> : n \in GapNames}

RECURSIVE GapListsOver(_, _)
\* Gap lists of at most n gaps, of different files.
GapListsOver(F, n) ==
    IF n = 0 THEN {<<>>}
    ELSE {<<>>} \cup UNION {{<<CoverageGap(f, m)>> \o rest :
                                m \in MissingLists, rest \in GapListsOver(F \ {f}, n - 1)} :
                            f \in F}

InitGenerate ==
    /\ pc = "h_discover"
    /\ AuxIdle
    /\ dry_run = FALSE
    /\ sources \in SourceTrees
    /\ files \in TestTrees
    /\ coverage_json = "absent"
    /\ files_before = files
    /\ files_generated = files
    /\ gaps \in GapListsOver(SourceFiles, MaxGaps)
    /\ changed_files = <<>>
    /\ tests_by_file = NoTests
    /\ files_data = NoData
    /\ coverage_json_path = TRUE
    /\ generated_tests = <<>>
    /\ first_result = NoResult
    /\ validation = NoResult
    /\ exit_code = -1
    /\ calls = <<>>
    /\ HarnessIdle

\* TestDiscoveryAgent.discover_tests on the test tree as it is now.
HarnessDiscover ==
    /\ pc = "h_discover"
    /\ tests_by_file' = discover_tests(files)
    /\ pc' = "h_generate"
    /\ UNCHANGED <<dry_run, sources, files, coverage_json, changed_files, files_data,
                   gaps, coverage_json_path, generated_tests, first_result,
                   validation, exit_code, calls, files_before, files_generated,
                   harnessVars,
                   changed_symbols, writes, diff_output, tool_runs>>

\* TestGenerationAgent.generate_tests on the gaps and the discovery result.
HarnessGenerate ==
    /\ pc = "h_generate"
    /\ LET r == generate_tests(gaps, tests_by_file, sources, files)
       IN  /\ generated_tests' = r.generated_tests
           /\ files' = r.files
           /\ files_generated' = r.files
           /\ first_generated' = IF round = 0 THEN r.generated_tests ELSE first_generated
           /\ writes' = r.written
    /\ files_before' = files
    /\ round' = round + 1
    /\ pc' = IF round = 0 THEN "h_discover" ELSE "h_done"
    /\ UNCHANGED <<dry_run, sources, coverage_json, changed_files, tests_by_file,
                   files_data, gaps, coverage_json_path, first_result, validation,
                   exit_code, calls, module_file, lines_in, lines_once, lines_twice,
                   changed_symbols, diff_output, tool_runs>>

NextGenerate == HarnessDiscover \/ HarnessGenerate

SpecGenerate == InitGenerate /\ [][NextGenerate]_vars

\* C6: discovery and generation run again on the same gaps and the same
\* sources, after a first generation, give no GeneratedTest and leave every
\* test file as it was.
C6_Idempotent ==
    (round >= 2 /\ pc \in {"h_discover", "h_done"}) =>
        /\ generated_tests = <<>>
        /\ files = files_before

\* A second round after a first one that generated tests.
C6_Witness ==
    /\ round = 2
    /\ Len(first_generated) >= 2
    /\ generated_tests = <<>>

\* The names a test file declares: a function's name, a method's with its class.
DeclaredNames(lines) ==
    LET idx == DeclIndexes(lines)
    IN  [j \in 1..Len(idx) |->
            IF lines[idx[j]].k = "method"
            THEN Qualified(lines[idx[j]].txt, lines[idx[j]].name)
            ELSE lines[idx[j]].name]

NoRepeats(seq) == \A i, j \in 1..Len(seq) : i # j => seq[i] # seq[j]

\* C7: generation leaves no test file with a repeated test name if none had
\* one before, and no test is generated twice in one call or generated when
\* discovery had found its name.
C7_NoDuplicateNames ==
    (round >= 1 /\ pc \in {"h_discover", "h_done"}) =>
        /\ \A t \in TestFiles :
              NoRepeats(DeclaredNames(files_before[t].lines)) =>
                  NoRepeats(DeclaredNames(files[t].lines))
        /\ NoRepeats(generated_tests)
        /\ \A i \in 1..Len(generated_tests) :
              generated_tests[i].name \notin existing_names_of(tests_by_file)

\* ------------------------------------------------------------ import harness
\* _ensure_module_import applied twice to any lines.
ImportModules == {<<"src", "a", "util">>, <<"src", "m">>}
ImportLineOf(f) == import_line_for(Join(module_path_for_file(f), "."),
                                   module_alias(module_path_for_file(f)))
ImportAlphabet ==
    {ImportLineOf(f) : f \in ImportModules}
        \cup {Import("pytest"), Import("src.a.util"), FromImport("unittest import mock"),
              Blank, Def(TestName("foo")), Body("assert True")}

InitImport ==
    /\ pc = "i_start"
    /\ AuxIdle
    /\ module_file \in ImportModules
    /\ lines_in \in SeqsUpTo(ImportAlphabet, MaxLen)
    /\ lines_once = <<>>
    /\ lines_twice = <<>>
    /\ round = 0
    /\ first_generated = <<>>
    /\ dry_run = FALSE
    /\ sources = [f \in SourceFiles |-> <<>>]
    /\ files = [t \in TestFiles |-> Absent]
    /\ coverage_json = "absent"
    /\ files_before = files
    /\ files_generated = files
    /\ RunIdle

EnsureOnce ==
    /\ pc = "i_start"
    /\ lines_once' = ensure_module_import(lines_in, Join(module_path_for_file(module_file), "."),
                                          module_alias(module_path_for_file(module_file)))
    /\ pc' = "i_once"
    /\ UNCHANGED <<dry_run, sources, files, coverage_json, changed_files, tests_by_file,
                   files_data, gaps, coverage_json_path, generated_tests, first_result,
                   validation, exit_code, calls, files_before, files_generated,
                   round, first_generated, module_file, lines_in, lines_twice,
                   changed_symbols, writes, diff_output, tool_runs>>

EnsureTwice ==
    /\ pc = "i_once"
    /\ lines_twice' = ensure_module_import(lines_once, Join(module_path_for_file(module_file), "."),
                                           module_alias(module_path_for_file(module_file)))
    /\ pc' = "i_twice"
    /\ UNCHANGED <<dry_run, sources, files, coverage_json, changed_files, tests_by_file,
                   files_data, gaps, coverage_json_path, generated_tests, first_result,
                   validation, exit_code, calls, files_before, files_generated,
                   round, first_generated, module_file, lines_in, lines_once,
                   changed_symbols, writes, diff_output, tool_runs>>

NextImport == EnsureOnce \/ EnsureTwice

SpecImport == InitImport /\ [][NextImport]_vars

Occurrences(line, lines) == Cardinality({i \in 1..Len(lines) : lines[i] = line})

\* C8 as claimed: inserting twice gives what inserting once gives, the result
\* holds the import line exactly once, and lines that hold it come back
\* unchanged.
C8_ExactlyOneImport ==
    pc = "i_twice" =>
        /\ lines_twice = lines_once
        /\ Occurrences(ImportLineOf(module_file), lines_once) = 1
        /\ ImportLineOf(module_file) \in Range(lines_in) => lines_once = lines_in

\* C8 as the code has it: inserting twice gives what inserting once gives;
\* lines that hold the import line come back unchanged, with as many copies of
\* it as they had; lines without it come back with exactly one.
C8_ImportIdempotent ==
    pc = "i_twice" =>
        /\ lines_twice = lines_once
        /\ ImportLineOf(module_file) \in Range(lines_in) => lines_once = lines_in
        /\ ImportLineOf(module_file) \notin Range(lines_in) =>
              /\ Occurrences(ImportLineOf(module_file), lines_once) = 1
              /\ Len(lines_once) = Len(lines_in) + 1
        /\ Occurrences(ImportLineOf(module_file), lines_in) <= 1 =>
              Occurrences(ImportLineOf(module_file), lines_once) = 1

\* Lines with other imports and without the module's: one insertion changed
\* them, the second did not.
C8_Witness ==
    /\ pc = "i_twice"
    /\ ImportLineOf(module_file) \notin Range(lines_in)
    /\ \E i \in 1..Len(lines_in) : lines_in[i].k \in {"import", "from"}
    /\ lines_once # lines_in
    /\ lines_twice = lines_once

\* ---------------------------------------------------------------- gap harness
\* _find_gaps on any report, with src/a/util.py any source file of at most
\* MaxSyms def/class nodes on lines 1..MaxLine.
SymbolNames == {"foo", "bar"}
Shapes ==
    {[name |-> n, lineno |-> lo, end_lineno |-> hi] :
        n \in SymbolNames, lo \in 1..MaxLine, hi \in 1..MaxLine}

\* a lies in the body of b
Inside(a, b) == b.lineno < a.lineno /\ a.end_lineno <= b.end_lineno
Apart(a, b) == a.end_lineno < b.lineno \/ b.end_lineno < a.lineno
\* Ranges of one syntax tree: start <= end, and two of them nest or are disjoint.
WellFormed(S) ==
    /\ \A a \in S : a.lineno <= a.end_lineno
    /\ \A a, b \in S : a # b => Inside(a, b) \/ Inside(b, a) \/ Apart(a, b)

RECURSIVE ShapeSets(_)
ShapeSets(n) ==
    IF n = 0 THEN {{}}
    ELSE LET smaller == ShapeSets(n - 1)
         IN  smaller \cup {S \cup {x} : S \in smaller, x \in Shapes}

DepthIn(a, S) == Cardinality({b \in S : Inside(a, b)})
\* ast.walk visits a tree level by level, each level in line order.
Before(a, b, S) ==
    \/ DepthIn(a, S) < DepthIn(b, S)
    \/ DepthIn(a, S) = DepthIn(b, S) /\ a.lineno < b.lineno

RECURSIVE WalkOrder(_, _)
WalkOrder(S, rest) ==
    IF rest = {} THEN <<>>
    ELSE LET first == CHOOSE a \in rest : \A b \in rest \ {a} : Before(a, b, S)
         IN  <<Node(first.name,
                    IF \E b \in S : Inside(b, first) THEN "ClassDef" ELSE "FunctionDef",
                    <<>>, first.lineno, first.end_lineno, DepthIn(first, S))>>
                 \o WalkOrder(S, rest \ {first})

EnumeratedSources ==
    {WalkOrder(S, S) : S \in {T \in ShapeSets(MaxSyms) : WellFormed(T)}}

GapSourceTrees ==
    {[f \in SourceFiles |->
        CASE f = <<"src", "a", "util">> -> a
          [] f = <<"src", "b", "util">> -> UtilB
          [] OTHER -> ModM] : a \in EnumeratedSources}

\* Any entry for src/a/util.py; for the example files, no entry or some lines.
GapReports ==
    {[f \in SourceFiles |->
        CASE f = <<"src", "a", "util">> -> a
          [] f = <<"src", "b", "util">> -> b
          [] OTHER -> m] :
        a \in EntriesOver(1..MaxLine),
        b \in {NoEntry, Entry({2})},
        m \in {EmptyEntry, Entry({1})}}

InitGaps ==
    /\ pc = "g_start"
    /\ AuxIdle
    /\ sources \in GapSourceTrees
    /\ changed_files \in DistinctSeqs(SourceFiles, MaxChanged)
    /\ files_data \in GapReports
    /\ dry_run = FALSE
    /\ files = [t \in TestFiles |-> Absent]
    /\ coverage_json = "fresh"
    /\ files_before = files
    /\ files_generated = files
    /\ tests_by_file = NoTests
    /\ gaps = <<>>
    /\ coverage_json_path = TRUE
    /\ generated_tests = <<>>
    /\ first_result = NoResult
    /\ validation = NoResult
    /\ exit_code = -1
    /\ calls = <<>>
    /\ HarnessIdle

\* CoverageAnalyzerAgent._find_gaps on the report and the changed files.
FindGaps ==
    /\ pc = "g_start"
    /\ gaps' = find_gaps(files_data, changed_files, sources)
    /\ pc' = "g_done"
    /\ UNCHANGED <<dry_run, sources, files, coverage_json, changed_files, tests_by_file,
                   files_data, coverage_json_path, generated_tests, first_result,
                   validation, exit_code, calls, files_before, files_generated,
                   harnessVars,
                   changed_symbols, writes, diff_output, tool_runs>>

NextGaps == FindGaps

SpecGaps == InitGaps /\ [][NextGaps]_vars

SymbolsOf(f) == cov_load_symbols(sources[f], f)
\* The symbol's name is listed in a gap of its file.
Appears(symbol, f) ==
    \E i \in 1..Len(gaps) : gaps[i].file = f /\ symbol.name \in Range(gaps[i].missing_tests)
Flagged(symbol, f) == symbol_has_missing_lines(symbol, files_data[f].missing_lines)

\* C9: for every changed file with an entry in the report and every symbol
\* of it, the symbol appears in the file's missing symbols if and only if a
\* line of its range is uncovered.
C9_SymbolGapCorrect ==
    pc = "g_done" =>
        \A f \in Range(changed_files) :
            files_data[f].present =>
                \A i \in 1..Len(SymbolsOf(f)) :
                    Appears(SymbolsOf(f)[i], f) <=> Flagged(SymbolsOf(f)[i], f)

GapsOf(f) == {i \in 1..Len(gaps) : gaps[i].file = f}

\* C10: a file has a gap if and only if it is a changed file with an entry in
\* the report whose uncovered lines are not empty and meet a symbol of the
\* file; it has one gap then, and no gap lists no symbol.
C10_GapIffFlagged ==
    pc = "g_done" =>
        /\ \A f \in SourceFiles :
              /\ GapsOf(f) # {} <=>
                    /\ f \in Range(changed_files)
                    /\ files_data[f].present
                    /\ files_data[f].missing_lines # {}
                    /\ \E i \in 1..Len(SymbolsOf(f)) : Flagged(SymbolsOf(f)[i], f)
              /\ Cardinality(GapsOf(f)) <= 1
        /\ \A i \in 1..Len(gaps) :
              /\ gaps[i].missing_tests # <<>>
              /\ gaps[i].file \in Range(changed_files)

\* Gaps found for two changed files: one gets a gap, the other has uncovered
\* lines but no flagged symbol and gets none; a third file has uncovered lines
\* but was not changed.
C10_Witness ==
    /\ pc = "g_done"
    /\ Len(gaps) = 1
    /\ Len(changed_files) = 2
    /\ \E f \in Range(changed_files) :
          /\ files_data[f].missing_lines # {}
          /\ GapsOf(f) = {}
    /\ \E f \in SourceFiles \ Range(changed_files) : files_data[f].missing_lines # {}


\* ------------------------------------- properties of detection and analysis
\* The first git call of the run found no git.
GitUnavailable ==
    /\ Len(tool_runs) >= 1
    /\ tool_runs[1] = Call("git diff --name-only HEAD~1 HEAD", "notfound")

IsGitCall(run) ==
    run.op \in {"git diff --name-only HEAD~1 HEAD", "git diff --name-only HEAD",
                "git diff -U0"}
GitRuns == SelectSeq(tool_runs, IsGitCall)

\* What the last _run_pytest of validate did.
LastPytest == ValidateCalls[Len(ValidateCalls)].outcome

\* C11 as stated: when version control is unavailable, no changed file is
\* detected, the run completes with no gap and no generated test, validation
\* is successful, and run returns 0.
C11_GitUnavailableExitsZero ==
    GitUnavailable =>
        /\ pc # "raised"
        /\ changed_files = <<>>
        /\ gaps = <<>>
        /\ generated_tests = <<>>
        /\ pc = "returned" => exit_code = 0
        /\ (pc \in {"validated", "returned"} /\ ~dry_run) => validation.success

\* C11, amended: when version control is unavailable, no changed file or
\* symbol is detected and no other git call is made, the run completes with no
\* gap, no generated test and the test tree untouched; validation still runs
\* the suite, so it is skipped exactly when the test runner is missing too,
\* and run returns 0 exactly when the last run of the suite did not fail
\* (a dry run returns 0 without validating).
C11_GitUnavailable ==
    GitUnavailable =>
        /\ pc # "raised"
        /\ changed_files = <<>> /\ changed_symbols = <<>>
        /\ Len(GitRuns) = 1
        /\ gaps = <<>>
        /\ generated_tests = <<>> /\ writes = <<>>
        /\ files = files_before
        /\ (pc = "returned" /\ dry_run) => (exit_code = 0 /\ ValidateCalls = <<>>)
        /\ (pc = "returned" /\ ~dry_run) =>
              /\ exit_code = 0 <=> validation.success
              /\ exit_code = 1 <=> LastPytest = "nonzero"
              /\ validation.skipped <=> LastPytest = "notfound"

\* Without git, with a test tree whose suite fails twice: run returned 1.
C11_Witness ==
    /\ GitUnavailable
    /\ pc = "returned"
    /\ files[<<"tests", "test_util">>].exists
    /\ CountOp("_run_pytest") = 2
    /\ exit_code = 1

\* Every git call so far found git.
GitPresent == \A i \in 1..Len(GitRuns) : GitRuns[i].outcome # "notfound"
\* Both file-list diffs exited non-zero.
BothListDiffsFailed ==
    /\ Len(GitRuns) >= 2
    /\ GitRuns[1] = Call("git diff --name-only HEAD~1 HEAD", "nonzero")
    /\ GitRuns[2] = Call("git diff --name-only HEAD", "nonzero")

\* C12: with git present, whichever diff calls exit non-zero (the primary and
\* the fallback file-list diff both among them), detect_changes raises nothing:
\* it returns, with no changed file when both file-list diffs failed, and the
\* run goes on to the later stages.
C12_DiffFailureNonFatal ==
    (GitPresent /\ CountOp("detect_changes") = 1) =>
        /\ pc # "raised"
        /\ BothListDiffsFailed => changed_files = <<>>

\* What the coverage run of analyze did.
CoverageRun == tool_runs[Len(tool_runs)].outcome
Analyzed == CountOp("analyze") = 1

\* C13: after analyze, if the coverage runner was missing, exited non-zero, or
\* left no report of its own (coverage.json absent, or only one left over from
\* an earlier run), there is no gap and no report path, and nothing is
\* generated.
C13_NoReportNoGaps ==
    (Analyzed /\ (CoverageRun \in {"notfound", "nonzero"} \/ coverage_json # "fresh")) =>
        /\ gaps = <<>>
        /\ ~coverage_json_path
        /\ generated_tests = <<>>

\* --------------------------------------------------- properties of generation
\* generate_tests has returned, and tests_by_file is the discovery it was given.
Generated == round >= 1 /\ pc \in {"h_discover", "h_done"}

\* The gaps whose source file has test_file as its test file, in order.
GapsFor(test_file) ==
    LET here(gap) == test_file_for_source(gap.file) = test_file
    IN  SelectSeq(gaps, here)
\* The gap gets at least one stub.
YieldsStub(gap) ==
    symbols_to_generate(gen_load_symbols(sources[gap.file]), gap,
                        existing_names_of(tests_by_file)) # <<>>
\* The lines generation started from: the file's, or the header of a new file.
Preexisting(test_file) ==
    IF files_before[test_file].exists THEN files_before[test_file].lines
    ELSE NewFileHeader
\* The module imports generation had to insert into test_file.
InsertedImports(test_file) ==
    {ImportLineOf(GapsFor(test_file)[i].file) : i \in 1..Len(GapsFor(test_file))}
        \ Range(Preexisting(test_file))
GeneratedNamesIn(test_file) ==
    LET here(g) == g.file_path = test_file
        in_file == SelectSeq(generated_tests, here)
    IN  [i \in 1..Len(in_file) |-> in_file[i].name]

\* lines is head \o tail, where head is the lines generation started from with
\* the module imports inserted, and tail holds the stubs of this call, in the
\* order they were generated, and nothing else that declares a test.
StubsAfter(test_file, lines, k) ==
    LET head == SubSeq(lines, 1, k)
        tail == SubSeq(lines, k + 1, Len(lines))
        kept(line) == line \notin InsertedImports(test_file)
    IN  /\ SelectSeq(head, kept) = Preexisting(test_file)
        /\ Len(head) <= Len(Preexisting(test_file)) + Cardinality(InsertedImports(test_file))
        /\ DeclaredNames(tail) = GeneratedNamesIn(test_file)
        /\ \A i \in 1..Len(tail) : tail[i].k \in {"blank", "def", "body"}

\* C14: generate_tests writes a test file once for each gap that got a stub and
\* not at all for a gap that got none; a file it did not write is as it was;
\* in a file it wrote, the lines that were there before are all there,
\* unchanged and in their order (only module imports come between them), and
\* every stub of this call lies after the last of them.
C14_AppendOnly ==
    Generated =>
        /\ writes = [i \in 1..Len(SelectSeq(gaps, YieldsStub)) |->
                        test_file_for_source(SelectSeq(gaps, YieldsStub)[i].file)]
        /\ \A t \in TestFiles :
              IF t \in Range(writes)
              THEN /\ files[t].exists
                   /\ \E k \in 0..Len(files[t].lines) : StubsAfter(t, files[t].lines, k)
              ELSE files[t] = files_before[t]

\* A hand-written tests/test_util.py got a module import after its own import
\* and stubs at its end, while the other gap of the call got no stub.
C14_Witness ==
    /\ round = 1 /\ pc = "h_discover"
    /\ files_before[<<"tests", "test_util">>] = TestUtilUnittest
    /\ Len(gaps) = 2
    /\ writes = << <<"tests", "test_util">> >>
    /\ Len(generated_tests) = 2
    /\ files[<<"tests", "test_util">>].lines[2] \in InsertedImports(<<"tests", "test_util">>)

\* The names of the def/class nodes of the file, at any depth.
NamesIn(f) == {sources[f][i].name : i \in 1..Len(sources[f])}

\* C15: for every gap and every name of its missing_tests that a def/class of
\* the source file bears, at the top level or nested, and for which discovery
\* found no test_<name>, generate_tests returns a GeneratedTest test_<name> in
\* the test file of the gap's source file; a name that no def/class of the
\* file bears gets no test.
C15_StubPerMissingSymbol ==
    Generated =>
        /\ \A i \in 1..Len(gaps) : \A n \in Range(gaps[i].missing_tests) :
              (n \in NamesIn(gaps[i].file)
                  /\ TestName(n) \notin existing_names_of(tests_by_file)) =>
                 GeneratedTest(TestName(n), test_file_for_source(gaps[i].file))
                     \in Range(generated_tests)
        /\ \A j \in 1..Len(generated_tests) :
              \E i \in 1..Len(gaps) :
                 /\ test_file_for_source(gaps[i].file) = generated_tests[j].file_path
                 /\ generated_tests[j].name.base \in
                        Range(gaps[i].missing_tests) \cap NamesIn(gaps[i].file)

\* ------------------------------------------------------------ symbol harness
\* _detect_changed_symbols on one file of an example tree, for any short diff.
DiffNames == {"foo", "Widget", "gone"}
DiffLines ==
    UNION {{AddedDef(n), AddedMethod(n), AddedClass(n), AddedSubclass(n),
            AddedAsyncDef(n), RemovedDef(n)} : n \in DiffNames}
        \cup {AddedBody, AddedDefNameless, FileHeader, HunkHeader}

InitSymbols ==
    /\ pc = "s_start"
    /\ sources \in SourceTrees
    /\ changed_files \in {<<f>> : f \in SourceFiles}
    /\ diff_output \in SeqsUpTo(DiffLines, MaxDiff)
    /\ changed_symbols = <<>>
    /\ writes = <<>>
    /\ tool_runs = <<>>
    /\ dry_run = FALSE
    /\ files = [t \in TestFiles |-> Absent]
    /\ coverage_json = "absent"
    /\ files_before = files
    /\ files_generated = files
    /\ tests_by_file = NoTests
    /\ files_data = NoData
    /\ gaps = <<>>
    /\ coverage_json_path = FALSE
    /\ generated_tests = <<>>
    /\ first_result = NoResult
    /\ validation = NoResult
    /\ exit_code = -1
    /\ calls = <<>>
    /\ HarnessIdle

\* ChangeDetectionAgent._detect_changed_symbols(file_path), whatever the diff did.
DetectSymbols ==
    /\ pc = "s_start"
    /\ \E outcome \in ToolOutcomes :
          LET file == changed_files[1]
              diff == diff_zero_context(outcome, diff_output)
          IN  /\ tool_runs' = <<Call("git diff -U0", outcome)>>
              /\ IF diff.raised
                 THEN pc' = "s_raised" /\ changed_symbols' = changed_symbols
                 ELSE /\ pc' = "s_done"
                      /\ changed_symbols' =
                            detect_changed_symbols(diff.lines,
                                                   parse_symbols(sources[file], file))
    /\ UNCHANGED <<dry_run, sources, files, coverage_json, changed_files, tests_by_file,
                   files_data, gaps, coverage_json_path, generated_tests, first_result,
                   validation, exit_code, calls, files_before, files_generated,
                   harnessVars, writes, diff_output>>

NextSymbols == DetectSymbols

SpecSymbols == InitSymbols /\ [][NextSymbols]_vars

\* The diff lines _detect_changed_symbols had: none after a non-zero exit.
DiffLinesSeen == IF tool_runs[1].outcome = "exit0" THEN diff_output ELSE <<>>
\* The names declared on added lines: "+def n", "+class n", indented or not.
AddedNames ==
    {n \in DiffNames :
        \E i \in 1..Len(DiffLinesSeen) :
            DiffLinesSeen[i] \in {AddedDef(n), AddedMethod(n), AddedClass(n),
                                  AddedSubclass(n)}}
AllSymbols == parse_symbols(sources[changed_files[1]], changed_files[1])
IsAdded(symbol) == symbol.name \in AddedNames
NamedSymbols == SelectSeq(AllSymbols, IsAdded)

\* C16 as stated: the symbols returned are those of the file whose names are
\* declared on added lines of the diff, and the whole symbol list is returned
\* exactly when no name is declared there.
C16_FilteredByName ==
    pc = "s_done" =>
        /\ extract_changed_names(DiffLinesSeen) = AddedNames
        /\ changed_symbols = IF AddedNames = {} THEN AllSymbols ELSE NamedSymbols

\* C16, amended: the names extracted are those declared on added lines; the
\* symbols returned are all those of the file that bear such a name when there
\* is one, and the whole symbol list when no name was extracted or no symbol
\* of the file bears an extracted name.
C16_FilteredOrAll ==
    pc = "s_done" =>
        /\ extract_changed_names(DiffLinesSeen) = AddedNames
        /\ changed_symbols = IF NamedSymbols # <<>> THEN NamedSymbols ELSE AllSymbols

\* A diff that adds "def foo" for a file with two symbols named foo and a
\* third of another name: both foo are returned, the third is not.
C16_Witness ==
    /\ pc = "s_done"
    /\ AddedNames = {"foo"}
    /\ Len(AllSymbols) = 3
    /\ Len(changed_symbols) = 2
    /\ \A i \in 1..2 : changed_symbols[i].name = "foo"
    /\ changed_symbols[1] # changed_symbols[2]

=============================================================================
